---- MODULE Spec2Model ----
(***************************************************************************)
(* The knowledge-graph builder of integrations/knowledge_graph_builder.py  *)
(* (class ERPNextKnowledgeGraph) together with the part of                 *)
(* integrations/erpnext_connector.py it calls.                             *)
(*                                                                         *)
(* The graph is a networkx MultiDiGraph: nodes in insertion order, one     *)
(* attribute dict per node, and a multiset of attributed directed edges.   *)
(* Python dicts are functions; dict.get(k, d) is Get.  Python's None is    *)
(* the sentinel None.  An exception is an outcome of the operation that    *)
(* raises it.                                                              *)
(***************************************************************************)
EXTENDS Bags, FiniteSets, Integers, Sequences, TLC

VARIABLES
    graph,      \* self.graph
    erp,        \* self.erpnext: [connected, bench] (bench: hasattr bench_path)
    pc,         \* position of the running build, "idle" between calls
    call,       \* the call in progress or last returned, with its inputs
    pre,        \* self.graph as it was when that call started
    results,    \* the results dict of the running or last build
    loc,        \* the locals of the running build
    requests,   \* the requests that call has sent to the data source
    nCalls,     \* number of calls made so far
    files,      \* the files of self.output_dir: name -> content
    now         \* the clock that datetime.now() reads, in ticks

vars == <<graph, erp, pc, call, pre, results, loc, requests, nCalls, files, now>>

(***************************************************************************)
(* Bounds                                                                  *)
(***************************************************************************)
MaxCalls == 4

(***************************************************************************)
(* Python values                                                           *)
(***************************************************************************)
None == "None"

Get(d, k, default) == IF k \in DOMAIN d THEN d[k] ELSE default

\* bool(v) of a JSON number
Bool(v) == v # 0

\* The scalar values of a sampled record: a JSON string, a JSON number, or
\* the None that dict.get returns for a missing key
JStr(s) == [t |-> "str", s |-> s, n |-> 0]

JNum(n) == [t |-> "num", s |-> "", n |-> n]

JNone == [t |-> "none", s |-> "", n |-> 0]

\* isinstance(v, str)
IsStr(v) == v.t = "str"

\* `if v:`
Truthy(v) == (v.t = "str" /\ v.s # "") \/ (v.t = "num" /\ v.n # 0)

\* str(v), also the rendering of v in an f-string
Str(v) == IF v.t = "str" THEN v.s ELSE IF v.t = "num" THEN ToString(v.n) ELSE None

\* dict.update: the keys of new win
Update(old, new) == new @@ old

(***************************************************************************)
(* networkx.MultiDiGraph                                                   *)
(***************************************************************************)
EmptyGraph == [order |-> <<>>, attrs |-> <<>>, edges |-> EmptyBag]

has_node(G, n) == n \in DOMAIN G.attrs

number_of_nodes(G) == Len(G.order)

number_of_edges(G) == BagCardinality(G.edges)

\* a store that appends a node on every add_node instead of updating it
nx_add_node_append(G, n, attr) ==
    [G EXCEPT !.order = Append(@, n), !.attrs = (n :> attr) @@ @]

\* add_node(n, **attr): a new node is appended, an existing one updated
nx_add_node(G, n, attr) ==
    IF has_node(G, n)
    THEN [G EXCEPT !.attrs[n] = Update(@, attr)]
    ELSE [G EXCEPT !.order = Append(@, n), !.attrs = (n :> attr) @@ @]

\* a simple-graph store: an edge equal to a stored one is not stored again
nx_add_edge_simple(G, u, v, attr) ==
    LET G1 == IF has_node(G, u) THEN G ELSE nx_add_node(G, u, <<>>)
        G2 == IF has_node(G1, v) THEN G1 ELSE nx_add_node(G1, v, <<>>)
        e == [src |-> u, dst |-> v, attrs |-> attr]
    IN IF BagIn(e, G2.edges) THEN G2 ELSE [G2 EXCEPT !.edges = @ (+) SetToBag({e})]

\* add_edge(u, v, **attr): absent endpoints become nodes without attributes,
\* and the edge is stored under a fresh key beside any parallel edges
nx_add_edge(G, u, v, attr) ==
    LET G1 == IF has_node(G, u) THEN G ELSE nx_add_node(G, u, <<>>)
        G2 == IF has_node(G1, v) THEN G1 ELSE nx_add_node(G1, v, <<>>)
    IN [G2 EXCEPT !.edges = @ (+) SetToBag({[src |-> u, dst |-> v, attrs |-> attr]})]

\* add_node and add_edge raise ValueError for None
NxRejects(n) == n = None

(***************************************************************************)
(* ERPNextConnector                                                        *)
(***************************************************************************)
EmptySchema == [kind |-> "dict", data |-> <<>>]

\* an answer that is no 200, or a request that raises
FetchError == [kind |-> "error", data |-> <<>>]

\* get_doctype_schema: {} over the bench CLI and on any failure, else the
\* 'data' of the answer
get_doctype_schema(E, answer) ==
    IF E.bench \/ answer.kind = "error" THEN EmptySchema ELSE answer

\* `if schema:`
SchemaTruthy(schema) == schema.kind # "dict" \/ DOMAIN schema.data # {}

(***************************************************************************)
(* ERPNextKnowledgeGraph: the store operations                             *)
(***************************************************************************)
BusinessFields == {"customer", "supplier", "company", "item_code", "project"}

DoctypeMetadata(schema) ==
    [node_type |-> "doctype",
     module |-> Get(schema.data, "module", "Unknown"),
     is_custom |-> Get(schema.data, "custom", 0),
     is_virtual |-> Get(schema.data, "is_virtual", 0),
     field_count |-> Len(Get(schema.data, "fields", <<>>)),
     has_web_view |-> Bool(Get(schema.data, "has_web_view", 0)),
     is_submittable |-> Bool(Get(schema.data, "is_submittable", 0))]

\* schema.get on a truthy answer that is no dict raises AttributeError;
\* add_node(None) raises ValueError
AddDoctypeNodeRaises(doctype, schema) ==
    \/ SchemaTruthy(schema) /\ schema.kind # "dict"
    \/ NxRejects(doctype)

add_doctype_node(G, doctype, schema) ==
    LET metadata == IF SchemaTruthy(schema)
                    THEN Update(<<>>, DoctypeMetadata(schema))
                    ELSE <<>>
    IN nx_add_node(G, doctype, metadata)

node_id_of(doctype, doc_name) == doctype \o "::" \o Str(doc_name)

DocumentMetadata(doctype, doc_name, doc_data) ==
    LET base == [node_type |-> "document",
                 doctype |-> doctype,
                 name |-> doc_name,
                 status |-> Get(doc_data, "status", JStr("Unknown")),
                 docstatus |-> Get(doc_data, "docstatus", JNum(0)),
                 creation |-> Get(doc_data, "creation", JStr("")),
                 modified |-> Get(doc_data, "modified", JStr(""))]
        present == {f \in BusinessFields :
                        f \in DOMAIN doc_data /\ Truthy(doc_data[f])}
    IN Update(base, [f \in present |-> Str(doc_data[f])])

InstanceOfAttrs == [relationship |-> "instance_of"]

\* a variant that tags the type node while connecting the document to it
add_document_node_tagging(G, doctype, doc_name, doc_data) ==
    LET node_id == node_id_of(doctype, doc_name)
        G1 == nx_add_node(G, node_id, DocumentMetadata(doctype, doc_name, doc_data))
        G2 == nx_add_node(G1, doctype, [node_type |-> "doctype"])
    IN nx_add_edge(G2, node_id, doctype, InstanceOfAttrs)

add_document_node(G, doctype, doc_name, doc_data) ==
    LET node_id == node_id_of(doctype, doc_name)
        G1 == nx_add_node(G, node_id, DocumentMetadata(doctype, doc_name, doc_data))
    IN nx_add_edge(G1, node_id, doctype, InstanceOfAttrs)

RelationshipAttrs(relationship_type) ==
    [relationship_type |-> relationship_type, created_at |-> "isoformat"]

add_relationship_edge(G, from_node, to_node, relationship_type) ==
    nx_add_edge(G, from_node, to_node, RelationshipAttrs(relationship_type))

(***************************************************************************)
(* The store driven call by call                                           *)
(***************************************************************************)
NoCall == [op |-> "none", arg1 |-> "", arg2 |-> "", arg3 |-> "",
           raised |-> FALSE, ret |-> ""]

NoResults == <<>>

NoLocals == <<>>

StoreDocTypes == {"A", "A:"}

StoreDocNames == {JStr("x"), JStr(":x")}

StoreDocDatas == {<<>>, [status |-> JStr("Open"), customer |-> JNum(7), company |-> JStr("")]}

Field(fieldtype, options) == [kind |-> "dict", fieldtype |-> fieldtype, options |-> options]

\* a truthy answer that is no dict
ListAnswer == [kind |-> "list", data |-> <<>>]

StoreSchemas ==
    {EmptySchema,
     [kind |-> "dict", data |-> [module |-> "Selling", is_submittable |-> 1,
                                 fields |-> <<Field("Link", "A"), Field("Data", "")>>]],
     ListAnswer}

StoreEdgeFrom == {"A", "A::x"}

StoreEdgeTo == {"A", "B"}

StoreKinds == {"links_to", "has_child_table"}

Init ==
    /\ graph = EmptyGraph
    /\ erp = [connected |-> FALSE, bench |-> FALSE]
    /\ pc = "idle"
    /\ call = NoCall
    /\ pre = EmptyGraph
    /\ results = NoResults
    /\ loc = NoLocals
    /\ requests = <<>>
    /\ nCalls = 0
    /\ files = <<>>
    /\ now = 0

AddDoctypeNode ==
    /\ pc = "idle" /\ nCalls < MaxCalls
    /\ \E doctype \in StoreDocTypes, answer \in StoreSchemas :
         LET schema == get_doctype_schema(erp, answer)
             raises == AddDoctypeNodeRaises(doctype, schema)
         IN /\ graph' = IF raises THEN graph ELSE add_doctype_node(graph, doctype, schema)
            /\ call' = [NoCall EXCEPT !.op = "add_doctype_node", !.arg1 = doctype,
                                      !.raised = raises]
            /\ requests' = <<[op |-> "get_doctype_schema", arg |-> doctype,
                              answer |-> answer]>>
    /\ pre' = graph
    /\ nCalls' = nCalls + 1
    /\ UNCHANGED <<erp, pc, results, loc, files, now>>

AddDocumentNode ==
    /\ pc = "idle" /\ nCalls < MaxCalls
    /\ \E doctype \in StoreDocTypes, doc_name \in StoreDocNames, doc_data \in StoreDocDatas :
         /\ graph' = add_document_node(graph, doctype, doc_name, doc_data)
         /\ call' = [NoCall EXCEPT !.op = "add_document_node", !.arg1 = doctype,
                                   !.arg2 = Str(doc_name),
                                   !.ret = node_id_of(doctype, doc_name)]
    /\ pre' = graph
    /\ requests' = <<>>
    /\ nCalls' = nCalls + 1
    /\ UNCHANGED <<erp, pc, results, loc, files, now>>

AddRelationshipEdge ==
    /\ pc = "idle" /\ nCalls < MaxCalls
    /\ \E from_node \in StoreEdgeFrom, to_node \in StoreEdgeTo, kind \in StoreKinds :
         /\ graph' = add_relationship_edge(graph, from_node, to_node, kind)
         /\ call' = [NoCall EXCEPT !.op = "add_relationship_edge", !.arg1 = from_node,
                                   !.arg2 = to_node, !.arg3 = kind]
    /\ pre' = graph
    /\ requests' = <<>>
    /\ nCalls' = nCalls + 1
    /\ UNCHANGED <<erp, pc, results, loc, files, now>>

Next == AddDoctypeNode \/ AddDocumentNode \/ AddRelationshipEdge

Spec == Init /\ [][Next]_vars

(***************************************************************************)
(* Claims about the store                                                  *)
(***************************************************************************)
Nodes(G) == DOMAIN G.attrs

IsDocumentNode(G, n) == Get(G.attrs[n], "node_type", "") = "document"

InstanceOfEdge(n, doctype) == [src |-> n, dst |-> doctype, attrs |-> InstanceOfAttrs]

\* C1: every instance node has exactly one instance_of edge to its type
\* node, also after repeated add_document_node calls for the same document.
C1_ExactlyOneInstanceOf ==
    \A n \in Nodes(graph) :
        IsDocumentNode(graph, n) =>
            CopiesIn(InstanceOfEdge(n, graph.attrs[n].doctype), graph.edges) = 1

\* C2: after add_document_node(type, name, attrs) the returned identity and
\* the type are nodes; an absent type node is created without attributes and
\* an existing one keeps its attributes.
C2_TypeNodeStubOrKept ==
    call.op = "add_document_node" =>
        /\ has_node(graph, call.ret)
        /\ has_node(graph, call.arg1)
        /\ graph.attrs[call.arg1] =
               IF has_node(pre, call.arg1) THEN pre.attrs[call.arg1] ELSE <<>>

C2_Witness ==
    /\ call.op = "add_document_node"
    /\ has_node(pre, call.arg1)
    /\ pre.attrs[call.arg1] # <<>>
    /\ \E t \in Nodes(graph) \ Nodes(pre) : graph.attrs[t] # <<>>
    /\ \E t \in StoreDocTypes \ {call.arg1} : has_node(graph, t) /\ graph.attrs[t] = <<>>

\* C3: add_doctype_node that returns adds one node for a name that is absent
\* and none for a name that is present, so two distinct absent names add two
\* nodes; it changes no edge and no other node.
C3_UpsertOnNodeCount ==
    (call.op = "add_doctype_node" /\ ~call.raised) =>
        /\ Nodes(graph) = Nodes(pre) \cup {call.arg1}
        /\ number_of_nodes(graph) =
               number_of_nodes(pre) + (IF has_node(pre, call.arg1) THEN 0 ELSE 1)
        /\ number_of_edges(graph) = number_of_edges(pre)
        /\ graph.edges = pre.edges
        /\ \A n \in Nodes(pre) \ {call.arg1} : graph.attrs[n] = pre.attrs[n]

C3_Witness ==
    /\ call.op = "add_doctype_node" /\ ~call.raised
    /\ has_node(pre, call.arg1)
    /\ \E t \in StoreDocTypes \ {call.arg1} :
          has_node(pre, t) /\ Get(pre.attrs[t], "node_type", "") = "doctype"
    /\ number_of_nodes(graph) = number_of_nodes(pre)

CallEdge == [src |-> call.arg1, dst |-> call.arg2, attrs |-> RelationshipAttrs(call.arg3)]

\* C4: add_relationship_edge never rejects an edge, whether or not its
\* endpoints are nodes, and every call adds exactly one edge, also one equal
\* to an edge already stored.
C4_AppendOnly ==
    call.op = "add_relationship_edge" =>
        /\ ~call.raised
        /\ number_of_edges(graph) = number_of_edges(pre) + 1
        /\ CopiesIn(CallEdge, graph.edges) = CopiesIn(CallEdge, pre.edges) + 1

C4_Witness ==
    /\ call.op = "add_relationship_edge"
    /\ CopiesIn(CallEdge, graph.edges) = 3
    /\ number_of_edges(graph) = 3
    /\ ~has_node(EmptyGraph, call.arg2) /\ graph.attrs[call.arg2] = <<>>

\* C5: an instance identity belongs to one (type, name) pair and is not
\* the identity of a node of another kind: a document added under an identity
\* that is already tagged finds a document of the same type and name there.
C5_IdentityUnique ==
    (call.op = "add_document_node" /\ has_node(pre, call.ret)
        /\ "node_type" \in DOMAIN pre.attrs[call.ret]) =>
            /\ pre.attrs[call.ret].node_type = "document"
            /\ pre.attrs[call.ret].doctype = call.arg1
            /\ Str(pre.attrs[call.ret].name) = call.arg2

(***************************************************************************)
(* ERPNextConnector: connection and listings                               *)
(***************************************************************************)
\* test_connection: the API answers ("api"), or only a bench is found
\* ("bench", which sets bench_path), or neither ("none")
ConnectionMethods == {"api", "bench", "none"}

test_connection(E, method) ==
    IF method = "api" THEN [E EXCEPT !.connected = TRUE]
    ELSE IF method = "bench" THEN [connected |-> TRUE, bench |-> TRUE]
    ELSE E

StatusConnected(method) == method # "none"

\* get_doctypes: [] when not connected, over the bench CLI and on any
\* failure, else the 'data' of the answer
get_doctypes(E, answer) ==
    IF ~E.connected THEN <<>> ELSE IF E.bench THEN <<>> ELSE answer

\* get_sample_documents: [] over the bench CLI and on any failure
get_sample_documents(E, answer) == IF E.bench THEN <<>> ELSE answer

(***************************************************************************)
(* discover_doctype_relationships                                          *)
(***************************************************************************)
known_relationships ==
    ("Customer" :> <<"Sales Order", "Sales Invoice", "Quotation", "Opportunity">>)
    @@ ("Supplier" :> <<"Purchase Order", "Purchase Invoice", "Request for Quotation">>)
    @@ ("Item" :> <<"Sales Order Item", "Purchase Order Item", "Stock Entry">>)
    @@ ("Project" :> <<"Task", "Timesheet", "Project Update">>)
    @@ ("Employee" :> <<"Task", "Timesheet", "Leave Application", "Expense Claim">>)
    @@ ("Sales Order" :> <<"Sales Invoice", "Delivery Note", "Sales Order Item">>)
    @@ ("Purchase Order" :> <<"Purchase Invoice", "Purchase Receipt", "Purchase Order Item">>)

NoRelationships == [links_to |-> <<>>, child_tables |-> <<>>, raised |-> FALSE]

\* the loop over the fields; field.get on a field that is no dict raises and
\* ends the scan with what was collected so far
RECURSIVE ScanFields(_, _)
ScanFields(fields, rel) ==
    IF fields = <<>> THEN rel
    ELSE LET field == Head(fields)
         IN IF field.kind # "dict" THEN [rel EXCEPT !.raised = TRUE]
            ELSE IF field.fieldtype = "Link" /\ field.options # ""
            THEN ScanFields(Tail(fields), [rel EXCEPT !.links_to = Append(@, field.options)])
            ELSE IF field.fieldtype = "Table" /\ field.options # ""
            THEN ScanFields(Tail(fields), [rel EXCEPT !.child_tables = Append(@, field.options)])
            ELSE ScanFields(Tail(fields), rel)

\* a resolver that puts the known relationships before the scanned ones
discover_known_first(doctype, schema) ==
    IF ~SchemaTruthy(schema) THEN NoRelationships
    ELSE IF schema.kind # "dict" THEN [NoRelationships EXCEPT !.raised = TRUE]
    ELSE LET scanned == ScanFields(Get(schema.data, "fields", <<>>), NoRelationships)
         IN IF scanned.raised \/ doctype \notin DOMAIN known_relationships
            THEN scanned
            ELSE [scanned EXCEPT !.links_to = known_relationships[doctype] \o @]

\* lines 59-79; raised: an exception was raised inside the try block
discover_doctype_relationships(doctype, schema) ==
    IF ~SchemaTruthy(schema) THEN NoRelationships
    ELSE IF schema.kind # "dict" THEN [NoRelationships EXCEPT !.raised = TRUE]
    ELSE LET scanned == ScanFields(Get(schema.data, "fields", <<>>), NoRelationships)
         IN IF scanned.raised \/ doctype \notin DOMAIN known_relationships
            THEN scanned
            ELSE [scanned EXCEPT !.links_to = @ \o known_relationships[doctype]]

\* a resolver without its except clause
DiscoverRaisesUncaught(relationships) == relationships.raised

\* lines 81-84: the except clause logs whatever the try block raised, and
\* the dict built so far is returned
DiscoverRaises(relationships) == FALSE

\* the dict that discover_doctype_relationships returns
DiscoverReturn(relationships) ==
    [links_to |-> relationships.links_to, linked_from |-> <<>>,
     child_tables |-> relationships.child_tables]

(***************************************************************************)
(* build_doctype_schema_graph                                              *)
(***************************************************************************)
MaxListing == 2

ConnectError == "Could not connect to ERPNext"

NoDoctypesError == "No DocTypes found"

\* the build without its connection check
SchemaStartOutcomeUnchecked(connected, doctypes) ==
    IF doctypes = <<>> THEN "no_doctypes" ELSE "run"

\* the two early returns of the build
SchemaStartOutcome(connected, doctypes) ==
    IF ~connected THEN "no_connection"
    ELSE IF doctypes = <<>> THEN "no_doctypes"
    ELSE "run"

StartError(outcome) == IF outcome = "no_connection" THEN ConnectError ELSE NoDoctypesError

SchemaResults == [doctypes_processed |-> 0, relationships_found |-> 0, errors |-> <<>>]

\* doctype_info.get('name') if isinstance(doctype_info, dict) else doctype_info
DoctypeOf(doctype_info) ==
    IF doctype_info.kind = "dict" THEN Get(doctype_info.data, "name", None)
    ELSE doctype_info.data

\* an except clause that drops the error
RecordErrorDropped(R, prefix, subject, exc) == R

\* results['errors'].append(f"{prefix} {subject}: {str(e)}")
RecordError(R, prefix, subject, exc) ==
    [R EXCEPT !.errors = Append(@, [prefix |-> prefix, subject |-> subject, exc |-> exc])]

AddDoctypeNodeError(doctype, schema) ==
    IF SchemaTruthy(schema) /\ schema.kind # "dict"
    THEN "'list' object has no attribute 'get'"
    ELSE "None cannot be a node"

\* links to every target, node or not
LinkAllowedAlways(G, target) == TRUE

\* if self.graph.has_node(linked_doctype)
LinkAllowed(G, target) == has_node(G, target)

RECURSIVE Tagged(_, _)
Tagged(targets, kind) ==
    IF targets = <<>> THEN <<>>
    ELSE <<[to |-> Head(targets), kind |-> kind]>> \o Tagged(Tail(targets), kind)

\* the targets the second pass walks for one type: links_to, then child_tables
PendingOf(relationships) ==
    Tagged(relationships.links_to, "links_to")
        \o Tagged(relationships.child_tables, "has_child_table")

SchemaEntries ==
    {[kind |-> "dict", data |-> [name |-> "Sales Order"]],
     [kind |-> "str", data |-> "Sales Order Item"],
     [kind |-> "dict", data |-> [module |-> "Core"]]}

RECURSIVE SeqsUpTo(_, _)
SeqsUpTo(S, n) ==
    IF n = 0 THEN {<<>>}
    ELSE LET shorter == SeqsUpTo(S, n - 1)
         IN shorter \cup {Append(q, x) : q \in shorter, x \in S}

Listings == SeqsUpTo(SchemaEntries, MaxListing)

SchemaAnswers ==
    {EmptySchema,
     ListAnswer,
     [kind |-> "dict", data |-> [module |-> "Selling",
                                 fields |-> <<Field("Link", "Sales Order"),
                                              Field("Data", ""),
                                              Field("Table", "Sales Order Item"),
                                              Field("Link", "")>>]],
     [kind |-> "dict", data |-> [fields |-> <<Field("Link", "Sales Order Item"),
                                              [kind |-> "str", fieldtype |-> "",
                                               options |-> ""],
                                              Field("Link", "Sales Order")>>]]}

Request(op, arg, answer) == [op |-> op, arg |-> arg, answer |-> answer]

\* lines 147-163: the connection check and the listing
SchemaStart ==
    /\ pc = "idle" /\ call.op = "none"
    /\ \E method \in ConnectionMethods, answer \in Listings :
         LET E1 == test_connection(erp, method)
             connected == StatusConnected(method)
             doctypes == IF connected THEN get_doctypes(E1, answer) ELSE <<>>
             outcome == SchemaStartOutcome(connected, get_doctypes(E1, answer))
         IN /\ erp' = E1
            /\ results' = IF outcome = "run" THEN SchemaResults
                          ELSE Update(SchemaResults, [error |-> StartError(outcome)])
            /\ pc' = IF outcome = "run" THEN "schema_nodes" ELSE "idle"
            /\ loc' = [doctypes |-> doctypes, i |-> 1, pending |-> <<>>]
            /\ requests' = IF connected
                           THEN <<Request("test_connection", "", method),
                                  Request("get_doctypes", "", answer)>>
                           ELSE <<Request("test_connection", "", method)>>
            /\ call' = [NoCall EXCEPT !.op = "build_doctype_schema_graph", !.arg1 = method]
    /\ pre' = graph
    /\ nCalls' = nCalls + 1
    /\ UNCHANGED <<graph, files, now>>

\* lines 166-172: one type of the first pass
SchemaAddNode ==
    /\ pc = "schema_nodes"
    /\ \E answer \in SchemaAnswers :
         LET doctype == DoctypeOf(loc.doctypes[loc.i])
             schema == get_doctype_schema(erp, answer)
             raises == AddDoctypeNodeRaises(doctype, schema)
             last == loc.i = Len(loc.doctypes)
         IN /\ graph' = IF raises THEN graph ELSE add_doctype_node(graph, doctype, schema)
            /\ results' = IF raises
                          THEN RecordError(results, "Error adding DocType", doctype,
                                           AddDoctypeNodeError(doctype, schema))
                          ELSE [results EXCEPT !.doctypes_processed = @ + 1]
            /\ loc' = [loc EXCEPT !.i = IF last THEN 1 ELSE @ + 1]
            /\ pc' = IF last THEN "schema_discover" ELSE "schema_nodes"
            /\ requests' = Append(requests, Request("get_doctype_schema", doctype, answer))
    /\ UNCHANGED <<erp, call, pre, nCalls, files, now>>

\* lines 175-178: one type of the second pass, its relationships discovered
SchemaDiscover ==
    /\ pc = "schema_discover"
    /\ \E answer \in SchemaAnswers :
         LET doctype == DoctypeOf(loc.doctypes[loc.i])
             schema == get_doctype_schema(erp, answer)
         IN /\ loc' = [loc EXCEPT !.pending =
                            PendingOf(discover_doctype_relationships(doctype, schema))]
            /\ requests' = Append(requests, Request("get_doctype_schema", doctype, answer))
    /\ pc' = "schema_links"
    /\ UNCHANGED <<graph, erp, call, pre, results, nCalls, files, now>>

\* lines 181-193: one target of that type; add_edge raises for the source
\* None, which ends the walk of this type with an error
SchemaAddLink ==
    /\ pc = "schema_links" /\ loc.pending # <<>>
    /\ LET doctype == DoctypeOf(loc.doctypes[loc.i])
           target == Head(loc.pending)
           allowed == LinkAllowed(graph, target.to)
           raises == allowed /\ NxRejects(doctype)
       IN /\ graph' = IF allowed /\ ~raises
                      THEN add_relationship_edge(graph, doctype, target.to, target.kind)
                      ELSE graph
          /\ results' = IF raises
                        THEN RecordError(results, "Error adding relationships for",
                                         doctype, "None cannot be a node")
                        ELSE IF allowed
                        THEN [results EXCEPT !.relationships_found = @ + 1]
                        ELSE results
          /\ loc' = [loc EXCEPT !.pending = IF raises THEN <<>> ELSE Tail(@)]
    /\ UNCHANGED <<erp, pc, call, pre, requests, nCalls, files, now>>

\* the end of one iteration of the second pass; line 195 after the last
SchemaNextType ==
    /\ pc = "schema_links" /\ loc.pending = <<>>
    /\ pc' = IF loc.i = Len(loc.doctypes) THEN "idle" ELSE "schema_discover"
    /\ loc' = [loc EXCEPT !.i = @ + 1]
    /\ UNCHANGED <<graph, erp, call, pre, results, requests, nCalls, files, now>>

NextSchema ==
    SchemaStart \/ SchemaAddNode \/ SchemaDiscover \/ SchemaAddLink \/ SchemaNextType

\* build_doctype_schema_graph on a freshly constructed builder
SpecSchema == Init /\ [][NextSchema]_vars

(***************************************************************************)
(* Claims about the type-level build                                       *)
(***************************************************************************)
\* the edges G1 holds more often than G0
NewEdges(G0, G1) ==
    {e \in BagToSet(G1.edges) : CopiesIn(e, G1.edges) > CopiesIn(e, G0.edges)}

SchemaBuildReturned == call.op = "build_doctype_schema_graph" /\ pc = "idle"

\* C6: the type-level build adds an edge only to a target that is a node at
\* that moment; a reference to a target that is no node is dropped without an
\* edge and without an error.
C6_EdgeOnlyToNode ==
    [][/\ \A e \in NewEdges(graph, graph') : has_node(graph, e.dst)
       /\ (pc = "schema_links" /\ loc.pending # <<>>
              /\ ~has_node(graph, Head(loc.pending).to)) =>
             (graph' = graph /\ results' = results
                /\ loc'.pending = Tail(loc.pending))]_vars

C6_Witness ==
    /\ pc = "schema_links" /\ loc.pending # <<>>
    /\ ~has_node(graph, Head(loc.pending).to)
    /\ number_of_edges(graph) >= 1
    /\ results.relationships_found = number_of_edges(graph)
    /\ \E t \in Nodes(graph) : \E j \in 1..Len(loc.pending) : loc.pending[j].to = t

\* C7: every edge of the type-level build joins a source and a destination
\* that are both nodes already, so adding an edge creates no node, also when
\* the first pass failed to create the node of the source type.
C7_BothEndpointsExist ==
    [][/\ \A e \in NewEdges(graph, graph') :
             has_node(graph, e.src) /\ has_node(graph, e.dst)
       /\ pc = "schema_links" => Nodes(graph') = Nodes(graph)]_vars

\* C8: without a connection the type-level build returns with the graph
\* unchanged and the connection error set; with a connection and an empty
\* listing it returns with the graph unchanged and another error set.
C8_AbortsLeaveGraph ==
    SchemaBuildReturned =>
        /\ ~StatusConnected(call.arg1) =>
              /\ graph = pre
              /\ "error" \in DOMAIN results /\ results.error = ConnectError
              /\ results.doctypes_processed = 0 /\ results.relationships_found = 0
        /\ (StatusConnected(call.arg1) /\ loc.doctypes = <<>>) =>
              /\ graph = pre
              /\ "error" \in DOMAIN results /\ results.error = NoDoctypesError
              /\ results.error # ConnectError
              /\ results.doctypes_processed = 0 /\ results.relationships_found = 0
        /\ "error" \in DOMAIN results =>
              (~StatusConnected(call.arg1) \/ loc.doctypes = <<>>)

C8_Witness ==
    /\ SchemaBuildReturned
    /\ call.arg1 = "none"
    /\ Len(requests) = 1
    /\ results.error = ConnectError

NodeErrors(R) == SelectSeq(R.errors, LAMBDA e : e.prefix = "Error adding DocType")

RelationshipErrors(R) ==
    SelectSeq(R.errors, LAMBDA e : e.prefix = "Error adding relationships for")

MaxSample == 3

MaxDocBuilds == 2

\* doc.items(), in one order
DocKeys == <<"name", "status", "docstatus", "customer">>

DocResults(doctype) ==
    [doctype |-> doctype, documents_processed |-> 0, relationships_found |-> 0,
     errors |-> <<>>]

NoDocumentsError(doctype) == "No documents found for " \o doctype

\* doc.get on a record that is no dict raises AttributeError, in the loop
\* body (line 217) and again in its except clause (line 223)
DocGetRaises(doc) == doc.kind # "dict"

\* lines 232-235: the other sampled records named by one field value
RECURSIVE MatchOthers(_, _, _, _, _)
MatchOthers(S, node_id, field_name, field_value, others) ==
    IF others = <<>> THEN S
    ELSE LET other == Head(others)
             hit == other.node_id # node_id
                        /\ Get(other.doc.data, "name", JNone) = field_value
             S1 == IF hit
                   THEN [graph |-> add_relationship_edge(S.graph, node_id, other.node_id,
                                                         "references_" \o field_name),
                         found |-> S.found + 1]
                   ELSE S
         IN MatchOthers(S1, node_id, field_name, field_value, Tail(others))

\* lines 229-230: the fields of one record whose value is a non-empty string
RECURSIVE FindReferences(_, _, _, _, _)
FindReferences(S, node_id, doc, keys, document_nodes) ==
    IF keys = <<>> THEN S
    ELSE LET field_name == Head(keys)
             S1 == IF field_name \in DOMAIN doc.data
                        /\ Truthy(doc.data[field_name]) /\ IsStr(doc.data[field_name])
                   THEN MatchOthers(S, node_id, field_name, doc.data[field_name],
                                    document_nodes)
                   ELSE S
         IN FindReferences(S1, node_id, doc, Tail(keys), document_nodes)

DocBuildTypes == {"Customer"}

Doc(data) == [kind |-> "dict", data |-> data]

DocRecords ==
    {Doc([name |-> JStr("A"), customer |-> JStr("B"), docstatus |-> JNum(1)]),
     Doc([name |-> JStr("B"), status |-> JStr("A")]),
     Doc([name |-> JStr("B"), customer |-> JStr("B")]),
     Doc([status |-> JStr("Open")]),
     [kind |-> "str", data |-> <<>>]}

DocListings == SeqsUpTo(DocRecords, MaxSample)

\* lines 199-211: the sample is fetched; an empty one ends the build
DocStart ==
    /\ pc = "idle" /\ nCalls < MaxDocBuilds
    /\ \E doctype \in DocBuildTypes, answer \in DocListings :
         LET documents == get_sample_documents(erp, answer)
         IN /\ results' = IF documents = <<>>
                          THEN Update(DocResults(doctype),
                                      [error |-> NoDocumentsError(doctype)])
                          ELSE DocResults(doctype)
            /\ pc' = IF documents = <<>> THEN "idle" ELSE "doc_nodes"
            /\ loc' = [documents |-> documents, i |-> 1, document_nodes |-> <<>>]
            /\ requests' = <<Request("get_sample_documents", doctype, answer)>>
            /\ call' = [NoCall EXCEPT !.op = "build_document_relationship_graph",
                                      !.arg1 = doctype]
    /\ pre' = graph
    /\ nCalls' = nCalls + 1
    /\ UNCHANGED <<graph, erp, files, now>>

\* lines 215-223: one sampled record becomes a node; an exception that the
\* except clause raises itself reaches the outer except (lines 240-241),
\* which sets 'error' and ends the build
DocAddNode ==
    /\ pc = "doc_nodes"
    /\ LET doc == loc.documents[loc.i]
           doctype == call.arg1
           raises == DocGetRaises(doc)
           escapes == raises /\ DocGetRaises(doc)
           doc_name == IF raises THEN JNone ELSE Get(doc.data, "name", JNone)
           added == ~raises /\ Truthy(doc_name)
           nodes == IF added
                    THEN Append(loc.document_nodes,
                                [node_id |-> node_id_of(doctype, doc_name), doc |-> doc])
                    ELSE loc.document_nodes
           last == loc.i = Len(loc.documents)
       IN /\ graph' = IF added THEN add_document_node(graph, doctype, doc_name, doc.data)
                      ELSE graph
          /\ results' = IF escapes
                        THEN Update(results,
                                    [error |-> "'str' object has no attribute 'get'"])
                        ELSE IF raises
                        THEN RecordError(results, "Error adding document",
                                         Str(Get(doc.data, "name", JStr(""))),
                                         "'str' object has no attribute 'get'")
                        ELSE IF added
                        THEN [results EXCEPT !.documents_processed = @ + 1]
                        ELSE results
          /\ loc' = [loc EXCEPT !.document_nodes = nodes,
                                !.i = IF escapes THEN @ ELSE IF last THEN 1 ELSE @ + 1]
          /\ pc' = IF escapes \/ (last /\ nodes = <<>>) THEN "idle"
                   ELSE IF last THEN "doc_links"
                   ELSE "doc_nodes"
    /\ UNCHANGED <<erp, call, pre, requests, nCalls, files, now>>

\* lines 226-238: the references of one node to the other sampled records
DocFindLinks ==
    /\ pc = "doc_links"
    /\ LET entry == loc.document_nodes[loc.i]
           S == FindReferences([graph |-> graph, found |-> 0], entry.node_id,
                               entry.doc, DocKeys, loc.document_nodes)
       IN /\ graph' = S.graph
          /\ results' = [results EXCEPT !.relationships_found = @ + S.found]
    /\ pc' = IF loc.i = Len(loc.document_nodes) THEN "idle" ELSE "doc_links"
    /\ loc' = [loc EXCEPT !.i = @ + 1]
    /\ UNCHANGED <<erp, call, pre, requests, nCalls, files, now>>

NextDocs == DocStart \/ DocAddNode \/ DocFindLinks

\* build_document_relationship_graph, once per key type
SpecDocs == Init /\ [][NextDocs]_vars

(***************************************************************************)
(* Claims about the instance-level build                                   *)
(***************************************************************************)
DocBuildReturned == call.op = "build_document_relationship_graph" /\ pc = "idle"

\* C10: whatever the shape of a sampled record, an exception it raises is
\* appended to the errors list and the remaining records are processed; the
\* 'error' field is set only for an empty sample.
C10_RecordErrorsCaught ==
    DocBuildReturned =>
        LET n == Len(loc.documents)
            named == {k \in 1..n : /\ loc.documents[k].kind = "dict"
                                   /\ Truthy(Get(loc.documents[k].data, "name", JNone))}
            raising == {k \in 1..n : loc.documents[k].kind # "dict"}
        IN /\ "error" \in DOMAIN results => loc.documents = <<>>
           /\ results.documents_processed = Cardinality(named)
           /\ Len(results.errors) = Cardinality(raising)

(***************************************************************************)
(* discover_doctype_relationships called on its own                        *)
(***************************************************************************)
MaxFields == 3

ResolveDoctypes == {"Customer", "Sales Order", "Task"}

ResolveFields ==
    {Field("Link", "Sales Order"),
     Field("Link", ""),
     Field("Table", "Sales Order Item"),
     Field("Data", "Task"),
     [kind |-> "str", fieldtype |-> "", options |-> ""]}

ResolveAnswers ==
    {FetchError, EmptySchema, ListAnswer, [kind |-> "dict", data |-> [module |-> "Selling"]]}
        \cup {[kind |-> "dict", data |-> [fields |-> fields]] :
                    fields \in SeqsUpTo(ResolveFields, MaxFields)}

\* test_connection, which decides how the schemas are fetched
ResolveConnect ==
    /\ pc = "idle"
    /\ \E method \in ConnectionMethods :
         /\ erp' = test_connection(erp, method)
         /\ call' = [NoCall EXCEPT !.op = "test_connection", !.arg1 = method]
    /\ results' = NoResults
    /\ requests' = <<>>
    /\ UNCHANGED <<graph, pc, pre, loc, nCalls, files, now>>

\* discover_doctype_relationships(doctype); a call that follows another one
\* at once reaches no state that the first call of a builder does not reach
Resolve ==
    /\ pc = "idle" /\ call.op # "discover_doctype_relationships"
    /\ \E doctype \in ResolveDoctypes, answer \in ResolveAnswers :
         LET schema == get_doctype_schema(erp, answer)
             relationships == discover_doctype_relationships(doctype, schema)
         IN /\ results' = DiscoverReturn(relationships)
            /\ call' = [NoCall EXCEPT !.op = "discover_doctype_relationships",
                                      !.arg1 = doctype,
                                      !.raised = DiscoverRaises(relationships)]
            /\ requests' = <<Request("get_doctype_schema", doctype, answer)>>
    /\ UNCHANGED <<graph, erp, pc, pre, loc, nCalls, files, now>>

NextResolve == ResolveConnect \/ Resolve

SpecResolve == Init /\ [][NextResolve]_vars

(***************************************************************************)
(* Claims about discover_doctype_relationships                             *)
(***************************************************************************)
Resolved == call.op = "discover_doctype_relationships"

\* the schema fetch of the last call failed or gave an empty schema
FetchGaveNothing ==
    \/ erp.bench
    \/ requests[1].answer.kind = "error"
    \/ requests[1].answer = EmptySchema

IsSuffix(s, t) ==
    Len(s) <= Len(t) /\ SubSeq(t, Len(t) - Len(s) + 1, Len(t)) = s

\* C12: for a type of the known_relationships table, links_to ends with the
\* table's entries for it whatever the schema fetch gave, an empty schema
\* and a failed fetch included.
C12_KnownAlwaysAppended ==
    Resolved /\ call.arg1 \in DOMAIN known_relationships =>
        IsSuffix(known_relationships[call.arg1], results.links_to)

\* the options of the fields of one fieldtype that carry options, in order
Targets(fields, fieldtype) ==
    LET chosen == SelectSeq(fields, LAMBDA f : f.fieldtype = fieldtype /\ f.options # "")
    IN [k \in 1..Len(chosen) |-> chosen[k].options]

\* a non-empty schema dict whose fields are all dicts
SchemaOfFields(answer) ==
    /\ answer.kind = "dict" /\ DOMAIN answer.data # {}
    /\ \A k \in 1..Len(Get(answer.data, "fields", <<>>)) :
          answer.data.fields[k].kind = "dict"

\* C13: for a non-empty schema, links_to is the options of every Link field
\* that has options, in field order and with repetitions, followed by the
\* known_relationships entries of the type; child_tables is the options of
\* every Table field that has options; no other field contributes.
C13_ScanThenKnown ==
    Resolved /\ ~erp.bench /\ SchemaOfFields(requests[1].answer) =>
        LET fields == Get(requests[1].answer.data, "fields", <<>>)
        IN /\ results.links_to =
                  Targets(fields, "Link") \o Get(known_relationships, call.arg1, <<>>)
           /\ results.child_tables = Targets(fields, "Table")

C13_Witness ==
    /\ Resolved /\ ~erp.bench /\ call.arg1 = "Customer"
    /\ requests[1].answer.kind = "dict"
    /\ "fields" \in DOMAIN requests[1].answer.data
    /\ requests[1].answer.data.fields =
           <<Field("Link", "Sales Order"), Field("Data", "Task"),
             Field("Link", "Sales Order")>>
    /\ Len(results.links_to) = 6

(***************************************************************************)
(* Claims about the edges of the type-level build                          *)
(***************************************************************************)
\* what discover_doctype_relationships gave for the k-th listed type in the
\* second pass of the returned build
ResolvedAt(k) ==
    LET n == Len(loc.doctypes)
    IN discover_doctype_relationships(
           DoctypeOf(loc.doctypes[k]),
           get_doctype_schema(erp, requests[2 + n + k].answer))

TargetsAt(k, kind) ==
    IF kind = "links_to" THEN ResolvedAt(k).links_to ELSE ResolvedAt(k).child_tables

\* one entry per listed type, list and position in that list whose target
\* is a node of G
Occurrences(G) ==
    UNION {{<<k, kind, j>> : j \in {i \in 1..Len(TargetsAt(k, kind)) :
                                        has_node(G, TargetsAt(k, kind)[i])}} :
              k \in {i \in 1..Len(loc.doctypes) : DoctypeOf(loc.doctypes[i]) # None},
              kind \in {"links_to", "has_child_table"}}

OccurrenceEdge(o) ==
    [src |-> DoctypeOf(loc.doctypes[o[1]]), dst |-> TargetsAt(o[1], o[2])[o[3]],
     attrs |-> RelationshipAttrs(o[2])]

ExpectedEdges(G) ==
    LET occ == Occurrences(G)
    IN [e \in {OccurrenceEdge(o) : o \in occ} |->
            Cardinality({o \in occ : OccurrenceEdge(o) = e})]

\* C14: after a type-level build on an empty graph the edges are, for every
\* listed type T, one links_to edge T->X per occurrence of X in the
\* links_to that discover_doctype_relationships gave for T with X a node of
\* the graph, one has_child_table edge per such occurrence in child_tables,
\* and no other edge; none is rejected or merged with an equal one.
C14_EdgePerOccurrence ==
    SchemaBuildReturned /\ "error" \notin DOMAIN results =>
        graph.edges = ExpectedEdges(graph)

(***************************************************************************)
(* Claims about the reference edges of the instance-level build            *)
(***************************************************************************)
\* the k-th sampled record is a dict with a usable name, so it has a node
Named(k) ==
    /\ loc.documents[k].kind = "dict"
    /\ Truthy(Get(loc.documents[k].data, "name", JNone))

NodeOfRecord(k) == node_id_of(call.arg1, loc.documents[k].data.name)

\* record a, field f, record b: the value of f in a is a non-empty string
\* equal to the name of b, and b has another node than a
ReferenceTriples ==
    {t \in UNION {{<<a, f, b>> : f \in DOMAIN loc.documents[a].data,
                                 b \in {k \in 1..Len(loc.documents) : Named(k)}} :
                     a \in {k \in 1..Len(loc.documents) : Named(k)}} :
        LET value == loc.documents[t[1]].data[t[2]]
        IN /\ IsStr(value) /\ value.s # ""
           /\ value = loc.documents[t[3]].data.name
           /\ NodeOfRecord(t[1]) # NodeOfRecord(t[3])}

TripleEdge(t) ==
    [src |-> NodeOfRecord(t[1]), dst |-> NodeOfRecord(t[3]),
     attrs |-> RelationshipAttrs("references_" \o t[2])]

ExpectedReferences ==
    [e \in {TripleEdge(t) : t \in ReferenceTriples} |->
        Cardinality({t \in ReferenceTriples : TripleEdge(t) = e})]

\* the edges of B that are no instance_of edges
ReferenceEdges(B) ==
    [e \in {x \in BagToSet(B) : "relationship_type" \in DOMAIN x.attrs} |-> B[e]]

\* C15: the reference edges that one instance-level build adds are exactly
\* one edge node(A)->node(B) of kind references_<f> for every sampled record
\* A, field f and other sampled record B of the batch such that A[f] is a
\* non-empty string equal to the name of B; without such a match it adds no
\* reference edge.
C15_ReferencePerMatch ==
    DocBuildReturned =>
        ReferenceEdges(graph.edges (-) pre.edges) = ExpectedReferences

(***************************************************************************)
(* get_graph_statistics                                                    *)
(***************************************************************************)
\* the [:10] of line 292
TopN == 10

\* stats[...][key] = stats[...].get(key, 0) + 1
TallyOnce(hist, key) == (key :> 1) @@ hist

Tally(hist, key) == (key :> (Get(hist, key, 0) + 1)) @@ hist

\* lines 281-283 over the first k nodes
RECURSIVE TallyNodes(_, _)
TallyNodes(G, k) ==
    IF k = 0 THEN <<>>
    ELSE Tally(TallyNodes(G, k - 1), Get(G.attrs[G.order[k]], "node_type", "unknown"))

\* lines 286-288 over the edges of the bag B, parallel edges one by one
RECURSIVE TallyEdges(_, _)
TallyEdges(B, hist) ==
    IF BagToSet(B) = {} THEN hist
    ELSE LET e == CHOOSE x \in BagToSet(B) : TRUE
         IN TallyEdges(B (-) SetToBag({e}),
                       Tally(hist, Get(e.attrs, "relationship_type", "unknown")))

\* MultiDiGraph.out_degree and in_degree: every parallel edge counts
out_degree(G, n) ==
    BagCardinality([e \in {x \in BagToSet(G.edges) : x.src = n} |-> G.edges[e]])

in_degree(G, n) ==
    BagCardinality([e \in {x \in BagToSet(G.edges) : x.dst = n} |-> G.edges[e]])

\* a degree that counts the outgoing edges only
degree_out_only(G, n) == out_degree(G, n)

\* MultiDiGraph.degree: in-degree plus out-degree, a self-loop counts twice
degree(G, n) == in_degree(G, n) + out_degree(G, n)

\* networkx.degree_centrality: 1 for every node of a graph of at most one
\* node, else degree * (1.0 / (len(G) - 1)), kept as the fraction num/den;
\* the items of the dict are in node order
degree_centrality(G) ==
    [k \in 1..number_of_nodes(G) |->
        [node |-> G.order[k],
         score |-> IF number_of_nodes(G) <= 1 THEN [num |-> 1, den |-> 1]
                   ELSE [num |-> degree(G, G.order[k]),
                         den |-> number_of_nodes(G) - 1]]]

ScoreLess(a, b) == a.num * b.den < b.num * a.den

\* a sort that puts an item before the items of equal score
InsertDescBeforeTies(sorted, x) ==
    LET k == Cardinality({i \in 1..Len(sorted) : ScoreLess(x.score, sorted[i].score)})
    IN SubSeq(sorted, 1, k) \o <<x>> \o SubSeq(sorted, k + 1, Len(sorted))

\* one item placed into a list sorted by descending score, behind the items
\* of equal score: sorted() is stable, also with reverse=True
InsertDesc(sorted, x) ==
    LET k == Cardinality({i \in 1..Len(sorted) : ~ScoreLess(sorted[i].score, x.score)})
    IN SubSeq(sorted, 1, k) \o <<x>> \o SubSeq(sorted, k + 1, Len(sorted))

\* sorted(items, key=lambda x: x[1], reverse=True)
RECURSIVE SortedDesc(_)
SortedDesc(items) ==
    IF items = <<>> THEN <<>>
    ELSE InsertDesc(SortedDesc(SubSeq(items, 1, Len(items) - 1)), items[Len(items)])

get_graph_statistics(G) ==
    LET ranked == SortedDesc(degree_centrality(G))
    IN [nodes |-> number_of_nodes(G),
        edges |-> number_of_edges(G),
        node_types |-> TallyNodes(G, number_of_nodes(G)),
        relationship_types |-> TallyEdges(G.edges, <<>>),
        most_connected_nodes |->
            SubSeq(ranked, 1, IF Len(ranked) < TopN THEN Len(ranked) ELSE TopN)]

(***************************************************************************)
(* The statistics of the graphs that the store operations build            *)
(***************************************************************************)
MaxStatNodes == 11

MaxStatEdges == 3

StatTypeName(k) == "T" \o ToString(k)

StatLast == StatTypeName(MaxStatNodes)

\* the first of the types T1, T2, ... that is no node of G
NextStatType(G) ==
    StatTypeName(CHOOSE k \in 1..MaxStatNodes :
                    /\ ~has_node(G, StatTypeName(k))
                    /\ \A j \in 1..(k - 1) : has_node(G, StatTypeName(j)))

StatEnds == {StatTypeName(1), StatLast}

StatSchema == [kind |-> "dict", data |-> [module |-> "Selling"]]

StatAddDoctype ==
    /\ pc = "idle" /\ number_of_nodes(graph) < MaxStatNodes
    /\ LET doctype == NextStatType(graph)
       IN /\ graph' = add_doctype_node(graph, doctype,
                                       get_doctype_schema(erp, StatSchema))
          /\ call' = [NoCall EXCEPT !.op = "add_doctype_node", !.arg1 = doctype]
          /\ requests' = <<Request("get_doctype_schema", doctype, StatSchema)>>
    /\ pre' = graph
    /\ results' = NoResults
    /\ UNCHANGED <<erp, pc, loc, nCalls, files, now>>

StatAddDocument ==
    /\ pc = "idle" /\ number_of_edges(graph) < MaxStatEdges
    /\ LET doctype == StatTypeName(1)
           G1 == add_document_node(graph, doctype, JStr("x"), <<>>)
       IN /\ number_of_nodes(G1) <= MaxStatNodes
          /\ graph' = G1
          /\ call' = [NoCall EXCEPT !.op = "add_document_node", !.arg1 = doctype,
                                    !.arg2 = "x",
                                    !.ret = node_id_of(doctype, JStr("x"))]
    /\ pre' = graph
    /\ results' = NoResults
    /\ requests' = <<>>
    /\ UNCHANGED <<erp, pc, loc, nCalls, files, now>>

StatAddEdge ==
    /\ pc = "idle" /\ number_of_edges(graph) < MaxStatEdges
    /\ \E from_node \in StatEnds, to_node \in StatEnds :
         LET G1 == add_relationship_edge(graph, from_node, to_node, "links_to")
         IN /\ number_of_nodes(G1) <= MaxStatNodes
            /\ graph' = G1
            /\ call' = [NoCall EXCEPT !.op = "add_relationship_edge",
                                      !.arg1 = from_node, !.arg2 = to_node,
                                      !.arg3 = "links_to"]
    /\ pre' = graph
    /\ results' = NoResults
    /\ requests' = <<>>
    /\ UNCHANGED <<erp, pc, loc, nCalls, files, now>>

GetGraphStatistics ==
    /\ pc = "idle"
    /\ results' = get_graph_statistics(graph)
    /\ call' = [NoCall EXCEPT !.op = "get_graph_statistics"]
    /\ pre' = graph
    /\ requests' = <<>>
    /\ UNCHANGED <<graph, erp, pc, loc, nCalls, files, now>>

NextStats == StatAddDoctype \/ StatAddDocument \/ StatAddEdge \/ GetGraphStatistics

SpecStats == Init /\ [][NextStats]_vars

(***************************************************************************)
(* Claims about get_graph_statistics                                       *)
(***************************************************************************)
StatsReturned == call.op = "get_graph_statistics"

Top == results.most_connected_nodes

\* the degree of n in the simple directed graph that has one edge u->v for
\* every pair joined by at least one edge u->v of G
SimpleDegree(G, n) ==
    Cardinality({e.dst : e \in {x \in BagToSet(G.edges) : x.src = n}})
        + Cardinality({e.src : e \in {x \in BagToSet(G.edges) : x.dst = n}})

\* C16: in a graph of N >= 2 nodes, the degree centrality reported for a
\* node is (in-degree + out-degree) / (N - 1) taken in the simple-graph
\* projection, where parallel edges count once.
C16_CentralityOnSimpleGraph ==
    StatsReturned /\ number_of_nodes(graph) >= 2 =>
        \A k \in 1..Len(Top) :
            Top[k].score.num * (number_of_nodes(graph) - 1)
                = SimpleDegree(graph, Top[k].node) * Top[k].score.den

Isolated(G, n) == \A e \in BagToSet(G.edges) : e.src # n /\ e.dst # n

\* C17: in a graph of at least 2 nodes a node without incident edges has
\* centrality exactly 0, and in a graph of exactly 2 nodes with exactly one
\* edge, which joins them, both nodes have centrality exactly 1.
C17_CentralityZeroAndOne ==
    StatsReturned /\ number_of_nodes(graph) >= 2 =>
        /\ \A k \in 1..Len(Top) :
              Isolated(graph, Top[k].node) => Top[k].score.num = 0
        /\ (/\ number_of_nodes(graph) = 2 /\ number_of_edges(graph) = 1
            /\ \A e \in BagToSet(graph.edges) : e.src # e.dst)
           => /\ {Top[k].node : k \in 1..Len(Top)} = Nodes(graph)
              /\ \A k \in 1..Len(Top) : Top[k].score.num = Top[k].score.den

C17_Witness ==
    /\ StatsReturned /\ number_of_nodes(graph) = 2 /\ number_of_edges(graph) = 1
    /\ \A e \in BagToSet(graph.edges) : e.src # e.dst
    /\ Len(Top) = 2 /\ Top[1].score = [num |-> 1, den |-> 1]

\* the position of node n in the insertion order of G
PositionOf(G, n) == CHOOSE k \in 1..Len(G.order) : G.order[k] = n

\* the centrality of the node n of G, as a fraction
CentralityOf(G, n) ==
    IF number_of_nodes(G) <= 1 THEN [num |-> 1, den |-> 1]
    ELSE [num |-> in_degree(G, n) + out_degree(G, n), den |-> number_of_nodes(G) - 1]

\* C18: the top-centrality list holds min(10, node count) (node, score)
\* pairs of distinct nodes with their scores, in non-increasing score
\* order, equal scores in node insertion order, and no node left out has a
\* higher score than a listed one.
C18_TopTenStable ==
    StatsReturned =>
        /\ Len(Top) = IF number_of_nodes(graph) < 10 THEN number_of_nodes(graph) ELSE 10
        /\ \A k \in 1..Len(Top) :
              /\ has_node(graph, Top[k].node)
              /\ Top[k].score = CentralityOf(graph, Top[k].node)
        /\ \A i, j \in 1..Len(Top) :
              i < j =>
                /\ Top[i].node # Top[j].node
                /\ ~ScoreLess(Top[i].score, Top[j].score)
                /\ ~ScoreLess(Top[j].score, Top[i].score) =>
                       PositionOf(graph, Top[i].node) < PositionOf(graph, Top[j].node)
        /\ \A n \in Nodes(graph) \ {Top[k].node : k \in 1..Len(Top)} :
              \A k \in 1..Len(Top) : ~ScoreLess(Top[k].score, CentralityOf(graph, n))

\* more than 10 nodes; the node inserted last ranks first, and nodes of
\* equal score follow in insertion order
C18_Witness ==
    /\ StatsReturned /\ number_of_nodes(graph) = 11 /\ Len(Top) = 10
    /\ Top[1].node = graph.order[11]
    /\ Top[9].score = Top[10].score
    /\ ScoreLess(Top[10].score, Top[1].score)

NodeTag(G, n) == Get(G.attrs[n], "node_type", "unknown")

EdgeTag(e) == Get(e.attrs, "relationship_type", "unknown")

RECURSIVE SumOf(_)
SumOf(f) ==
    IF DOMAIN f = {} THEN 0
    ELSE LET k == CHOOSE x \in DOMAIN f : TRUE
         IN f[k] + SumOf([x \in DOMAIN f \ {k} |-> f[x]])

\* C19: on every graph, the empty graph of a fresh builder included,
\* get_graph_statistics returns; nodes is the node count and edges the edge
\* count; node_types counts every node once under its node_type and
\* relationship_types every edge once under its relationship_type, a
\* missing tag as "unknown"; each histogram sums to the matching count.
C19_CountsAndHistograms ==
    StatsReturned =>
        /\ ~call.raised
        /\ results.nodes = number_of_nodes(graph)
        /\ results.edges = number_of_edges(graph)
        /\ DOMAIN results.node_types = {NodeTag(graph, n) : n \in Nodes(graph)}
        /\ \A tag \in DOMAIN results.node_types :
              results.node_types[tag]
                  = Cardinality({n \in Nodes(graph) : NodeTag(graph, n) = tag})
        /\ DOMAIN results.relationship_types = {EdgeTag(e) : e \in BagToSet(graph.edges)}
        /\ \A tag \in DOMAIN results.relationship_types :
              results.relationship_types[tag]
                  = BagCardinality([e \in {x \in BagToSet(graph.edges) : EdgeTag(x) = tag}
                                        |-> graph.edges[e]])
        /\ SumOf(results.node_types) = number_of_nodes(graph)
        /\ SumOf(results.relationship_types) = number_of_edges(graph)

\* a graph with an untagged type node, two parallel instance_of edges
\* without relationship_type and a tagged edge
C19_Witness ==
    /\ StatsReturned
    /\ "unknown" \in DOMAIN results.node_types
    /\ "document" \in DOMAIN results.node_types
    /\ "unknown" \in DOMAIN results.relationship_types
    /\ results.relationship_types["unknown"] = 2
    /\ "links_to" \in DOMAIN results.relationship_types

(***************************************************************************)
(* export_graph                                                            *)
(***************************************************************************)
MaxExports == 2

MaxTime == 3

\* the clock ticks twice a second
TicksPerSecond == 2

\* datetime.now().strftime('%Y%m%d_%H%M%S'): the time to the whole second
Timestamp(t) == ToString(t \div TicksPerSecond)

\* lines 248-249, the directory left out
ExportFilename(t, format) ==
    "erpnext_knowledge_graph_" \o Timestamp(t) \o "." \o format

SupportedFormats == {"graphml", "json", "gexf"}

UnsupportedFormatError(format) == "Unsupported format: " \o format

\* an export that opens its file before it looks at the format
ExportWritesAlways(format) == TRUE

\* lines 252-261: a writer is called for the three formats only
ExportWrites(format) == format \in SupportedFormats

\* MultiDiGraph.edges(keys=True, data=True) as a list, one entry for every
\* parallel edge
RECURSIVE EdgeList(_)
EdgeList(B) ==
    IF BagToSet(B) = {} THEN <<>>
    ELSE LET e == CHOOSE x \in BagToSet(B) : TRUE
         IN <<e>> \o EdgeList(B (-) SetToBag({e}))

\* a listing that gives every edge the key of a simple graph
EdgeKeyZero(edges, k) == 0

\* the key add_edge gave the edge: the number of edges there were between
\* the same two nodes
EdgeKey(edges, k) ==
    Cardinality({j \in 1..(k - 1) : /\ edges[j].src = edges[k].src
                                    /\ edges[j].dst = edges[k].dst})

\* nx.node_link_data: the nodes in order, each with its attributes and
\* 'id'; one link for every edge with its attributes, 'source', 'target'
\* and 'key'
node_link_data(G) ==
    LET edges == EdgeList(G.edges)
    IN [directed |-> TRUE,
        multigraph |-> TRUE,
        nodes |-> [k \in 1..number_of_nodes(G) |->
                      Update(G.attrs[G.order[k]], [id |-> G.order[k]])],
        links |-> [k \in 1..Len(edges) |->
                      Update(edges[k].attrs, [source |-> edges[k].src,
                                              target |-> edges[k].dst,
                                              key |-> EdgeKey(edges, k)])]]

\* what the writer of the format puts into the file
ExportContent(G, format) ==
    IF format = "json" THEN [format |-> format, data |-> node_link_data(G)]
    ELSE [format |-> format, data |-> G]

\* what the file system does to the export: the file is written, cannot
\* be opened, or is opened and the writer fails part-way
ExportIO == {"ok", "open_error", "write_error"}

\* the file a failed writer leaves behind
PartialContent(format) == [format |-> format, data |-> <<>>]

\* lines 245-268 on the output directory F at time t: the directory after
\* the call, whether the call raised, and the path returned or the error
export_graph(F, G, t, format, io) ==
    LET filename == ExportFilename(t, format)
        raises == format \notin SupportedFormats \/ io # "ok"
        written == IF io = "ok" THEN ExportContent(G, format)
                   ELSE PartialContent(format)
    IN [files |-> IF ExportWrites(format) /\ io # "open_error"
                  THEN (filename :> written) @@ F
                  ELSE F,
        raised |-> raises,
        ret |-> IF format \notin SupportedFormats
                THEN UnsupportedFormatError(format)
                ELSE IF io # "ok" THEN "OSError" ELSE filename]

ExportFormats == SupportedFormats \cup {"csv"}

ExportGraph ==
    /\ pc = "idle" /\ nCalls < MaxExports
    /\ \E format \in ExportFormats, io \in ExportIO :
         LET out == export_graph(files, graph, now, format, io)
         IN /\ files' = out.files
            /\ call' = [NoCall EXCEPT !.op = "export_graph", !.arg1 = format,
                                      !.arg2 = io,
                                      !.raised = out.raised,
                                      !.ret = out.ret]
    /\ pre' = graph
    /\ results' = NoResults
    /\ requests' = <<>>
    /\ nCalls' = nCalls + 1
    /\ UNCHANGED <<graph, erp, pc, loc, now>>

Tick ==
    /\ now < MaxTime
    /\ now' = now + 1
    /\ UNCHANGED <<graph, erp, pc, call, pre, results, loc, requests, nCalls, files>>

NextExport == StatAddDocument \/ ExportGraph \/ Tick

SpecExport == Init /\ [][NextExport]_vars

\* the json export that ends a run
ExportJson ==
    /\ pc = "idle"
    /\ \E io \in ExportIO :
         LET out == export_graph(files, graph, now, "json", io)
         IN /\ files' = out.files
            /\ call' = [NoCall EXCEPT !.op = "export_graph", !.arg1 = "json",
                                      !.arg2 = io,
                                      !.raised = out.raised,
                                      !.ret = out.ret]
    /\ pc' = "exported"
    /\ pre' = graph
    /\ results' = NoResults
    /\ requests' = <<>>
    /\ UNCHANGED <<graph, erp, loc, nCalls, now>>

NextJson == StatAddDoctype \/ StatAddDocument \/ StatAddEdge \/ ExportJson

SpecJson == Init /\ [][NextJson]_vars

(***************************************************************************)
(* Claims about export_graph                                               *)
(***************************************************************************)
\* C20: export_graph with a format other than json, graphml and gexf raises
\* the unsupported-format error, writes no file to the output directory
\* and leaves the graph as it was.
C20_UnknownFormatWritesNothing ==
    [][(/\ nCalls' = nCalls + 1
        /\ call'.op = "export_graph"
        /\ call'.arg1 \notin {"json", "graphml", "gexf"})
       => /\ call'.raised
          /\ call'.ret = "Unsupported format: " \o call'.arg1
          /\ files' = files
          /\ graph' = graph]_vars

\* an export of an unknown format from a graph with edges, after an export
\* that wrote a file
C20_Witness ==
    /\ call.op = "export_graph" /\ call.arg1 = "csv" /\ call.raised
    /\ nCalls = 2
    /\ DOMAIN files # {}
    /\ number_of_edges(graph) >= 2
    /\ pre = graph

\* the paths of the exports that were written whole
Exported == {f \in DOMAIN files : files[f].data # <<>>}

\* C21: a successful export returns a path that no earlier successful
\* export in the same output directory returned, so no export overwrites
\* a prior one, also when the two calls follow each other at once.
C21_ExportNeverOverwrites ==
    [][(/\ nCalls' = nCalls + 1
        /\ call'.op = "export_graph"
        /\ ~call'.raised)
       => call'.ret \notin Exported]_vars

\* what nx.node_link_graph reads from the parsed file: the nodes listed and
\* the ends of the links; one edge for every (source, target, key), with
\* the attributes of the last link that names it
ParsedNodes(data) ==
    {data.nodes[k].id : k \in DOMAIN data.nodes}
        \cup {data.links[k].source : k \in DOMAIN data.links}
        \cup {data.links[k].target : k \in DOMAIN data.links}

KeyOf(l) == <<l.source, l.target, l.key>>

KindOf(attrs) ==
    IF "relationship_type" \in DOMAIN attrs THEN attrs.relationship_type
    ELSE Get(attrs, "relationship", "unknown")

ParsedLinks(data) ==
    {k \in DOMAIN data.links :
        \A j \in DOMAIN data.links :
            KeyOf(data.links[j]) = KeyOf(data.links[k]) => j <= k}

Triple(source, target, kind) == [src |-> source, dst |-> target, kind |-> kind]

ParsedEdges(data) ==
    LET triple(k) == Triple(data.links[k].source, data.links[k].target,
                            KindOf(data.links[k]))
    IN [t \in {triple(k) : k \in ParsedLinks(data)} |->
           Cardinality({k \in ParsedLinks(data) : triple(k) = t})]

\* the (source, target, kind) edges of a graph, parallel edges counted
EdgeTriples(B) ==
    LET triple(e) == Triple(e.src, e.dst, KindOf(e.attrs))
    IN [t \in {triple(e) : e \in BagToSet(B)} |->
           SumOf([e \in {x \in BagToSet(B) : triple(x) = t} |-> B[e]])]

JsonExported ==
    call.op = "export_graph" /\ call.arg1 = "json" /\ ~call.raised

\* C22: the json file of a successful export, parsed back, has the node
\* identities of the graph and its multiset of (source, target, kind)
\* edges, parallel edges and instance_of edges included.
C22_JsonRoundTrip ==
    JsonExported =>
        /\ ParsedNodes(files[call.ret].data) = Nodes(graph)
        /\ ParsedEdges(files[call.ret].data) = EdgeTriples(graph.edges)

\* an export of a graph with two parallel links_to edges and an instance_of
\* edge
C22_Witness ==
    /\ JsonExported
    /\ \E t \in DOMAIN EdgeTriples(graph.edges) :
         t.kind = "links_to" /\ EdgeTriples(graph.edges)[t] = 2
    /\ \E t \in DOMAIN EdgeTriples(graph.edges) : t.kind = "instance_of"

(***************************************************************************)
(* Claims about the attributes of edges and type nodes                     *)
(***************************************************************************)
\* C25: every edge of the graph, added by add_relationship_edge or together
\* with an instance node by add_document_node, carries relationship_type
\* with its kind (instance_of, links_to or has_child_table for the edges
\* added here) and the creation timestamp created_at.
C25_EdgesCarryKind ==
    \A e \in BagToSet(graph.edges) :
        /\ "relationship_type" \in DOMAIN e.attrs
        /\ "created_at" \in DOMAIN e.attrs
        /\ e.attrs.relationship_type
              \in {"instance_of", "links_to", "has_child_table"}

\* C29: the node of the type named in a call of add_doctype_node that
\* returned, whatever the schema lookup answered, and of the type named in
\* a call of add_document_node has node_type 'doctype'.
C29_TypeNodesTagged ==
    (/\ call.op \in {"add_doctype_node", "add_document_node"}
     /\ ~call.raised)
        => Get(graph.attrs[call.arg1], "node_type", "unknown") = "doctype"

(***************************************************************************)
(* The two builds as whole calls                                           *)
(***************************************************************************)
\* lines 166-172 for the first k types of the listing; answers[j] is what
\* the schema lookup of the j-th type returns
RECURSIVE SchemaNodesPass(_, _, _, _, _)
SchemaNodesPass(S, E, doctypes, answers, k) ==
    IF k = 0 THEN S
    ELSE LET P == SchemaNodesPass(S, E, doctypes, answers, k - 1)
             doctype == DoctypeOf(doctypes[k])
             schema == get_doctype_schema(E, answers[k])
             raises == AddDoctypeNodeRaises(doctype, schema)
         IN [graph |-> IF raises THEN P.graph
                       ELSE add_doctype_node(P.graph, doctype, schema),
             results |-> IF raises
                         THEN RecordError(P.results, "Error adding DocType", doctype,
                                          AddDoctypeNodeError(doctype, schema))
                         ELSE [P.results EXCEPT !.doctypes_processed = @ + 1]]

\* lines 181-193 for one type: its targets in turn, until add_edge raises
RECURSIVE SchemaLinks(_, _, _)
SchemaLinks(S, doctype, pending) ==
    IF pending = <<>> THEN S
    ELSE LET target == Head(pending)
             allowed == LinkAllowed(S.graph, target.to)
         IN IF allowed /\ NxRejects(doctype)
            THEN [graph |-> S.graph,
                  results |-> RecordError(S.results, "Error adding relationships for",
                                          doctype, "None cannot be a node")]
            ELSE SchemaLinks(
                     IF allowed
                     THEN [graph |-> add_relationship_edge(S.graph, doctype, target.to,
                                                           target.kind),
                           results |-> [S.results EXCEPT !.relationships_found = @ + 1]]
                     ELSE S,
                     doctype, Tail(pending))

\* lines 175-193 for the first k types of the listing
RECURSIVE SchemaLinksPass(_, _, _, _, _)
SchemaLinksPass(S, E, doctypes, answers, k) ==
    IF k = 0 THEN S
    ELSE LET doctype == DoctypeOf(doctypes[k])
             schema == get_doctype_schema(E, answers[k])
         IN SchemaLinks(SchemaLinksPass(S, E, doctypes, answers, k - 1), doctype,
                        PendingOf(discover_doctype_relationships(doctype, schema)))

\* lines 145-195: the graph, the connector and the results after the call
build_doctype_schema_graph(G, E, method, answer, answers1, answers2) ==
    LET E1 == test_connection(E, method)
        doctypes == get_doctypes(E1, answer)
        outcome == SchemaStartOutcome(StatusConnected(method), doctypes)
        n == Len(doctypes)
        S0 == [graph |-> G, results |-> SchemaResults]
        S1 == SchemaNodesPass(S0, E1, doctypes, answers1, n)
        S2 == SchemaLinksPass(S1, E1, doctypes, answers2, n)
    IN IF outcome = "run"
       THEN [graph |-> S2.graph, erp |-> E1, results |-> S2.results]
       ELSE [graph |-> G, erp |-> E1,
             results |-> Update(SchemaResults, [error |-> StartError(outcome)])]

\* lines 215-223 for the first k sampled records; a record that is no dict
\* raises in the except clause too and ends the build
RECURSIVE DocNodesPass(_, _, _, _)
DocNodesPass(S, doctype, documents, k) ==
    IF k = 0 THEN S
    ELSE LET P == DocNodesPass(S, doctype, documents, k - 1)
             doc == documents[k]
             doc_name == IF DocGetRaises(doc) THEN JNone
                         ELSE Get(doc.data, "name", JNone)
         IN IF P.escaped THEN P
            ELSE IF DocGetRaises(doc)
            THEN [P EXCEPT !.escaped = TRUE,
                           !.results = Update(@,
                               [error |-> "'str' object has no attribute 'get'"])]
            ELSE IF Truthy(doc_name)
            THEN [P EXCEPT !.graph = add_document_node(@, doctype, doc_name, doc.data),
                           !.results.documents_processed = @ + 1,
                           !.document_nodes =
                               Append(@, [node_id |-> node_id_of(doctype, doc_name),
                                          doc |-> doc])]
            ELSE P

\* lines 226-238 for the first k nodes of the sample
RECURSIVE DocLinksPass(_, _)
DocLinksPass(S, k) ==
    IF k = 0 THEN S
    ELSE LET P == DocLinksPass(S, k - 1)
             entry == S.document_nodes[k]
             F == FindReferences([graph |-> P.graph, found |-> 0], entry.node_id,
                                 entry.doc, DocKeys, S.document_nodes)
         IN [P EXCEPT !.graph = F.graph,
                      !.results.relationships_found = @ + F.found]

\* lines 197-243: the graph and the results after the call
build_document_relationship_graph(G, E, doctype, answer) ==
    LET documents == get_sample_documents(E, answer)
        S0 == [graph |-> G, results |-> DocResults(doctype),
               document_nodes |-> <<>>, escaped |-> FALSE]
        S1 == DocNodesPass(S0, doctype, documents, Len(documents))
        S2 == IF S1.escaped THEN S1 ELSE DocLinksPass(S1, Len(S1.document_nodes))
    IN IF documents = <<>>
       THEN [graph |-> G,
             results |-> Update(DocResults(doctype),
                                [error |-> NoDocumentsError(doctype)])]
       ELSE [graph |-> S2.graph, results |-> S2.results]

(***************************************************************************)
(* Claims about the order of the listing                                   *)
(***************************************************************************)
\* the listing, with the answers the data source gave for each of its
\* types in the two passes, in the order p
Permuted(q, p) == [k \in 1..Len(q) |-> q[p[k]]]

SchemaAnswersOf(first, n) == [k \in 1..n |-> requests[first + k].answer]

DistinctTypes(doctypes) ==
    \A j, k \in 1..Len(doctypes) :
        j # k => DoctypeOf(doctypes[j]) # DoctypeOf(doctypes[k])

\* C26: the type-level build adds no edge while its first pass runs, and
\* the multiset of (source, target, kind) edges it ends with is the one the
\* build ends with for every permutation of the same listing with the same
\* answers of the data source for each type.
C26_OrderIndependent ==
    /\ pc = "schema_nodes" => graph.edges = pre.edges
    /\ (SchemaBuildReturned /\ "error" \notin DOMAIN results
            /\ DistinctTypes(loc.doctypes)) =>
          LET n == Len(loc.doctypes)
              a1 == SchemaAnswersOf(2, n)
              a2 == SchemaAnswersOf(2 + n, n)
          IN \A p \in Permutations(1..n) :
                EdgeTriples(build_doctype_schema_graph(
                                pre, erp, call.arg1, Permuted(loc.doctypes, p),
                                Permuted(a1, p), Permuted(a2, p)).graph.edges)
                    = EdgeTriples(graph.edges)

(***************************************************************************)
(* build_complete_knowledge_graph                                          *)
(***************************************************************************)
MaxBuilds == 2

key_doctypes == <<"Customer", "Item", "Sales Order", "Purchase Order", "Project">>

ExportOrder == <<"json", "graphml">>

FullResults ==
    [schema_graph |-> <<>>, document_graphs |-> <<>>, export_paths |-> <<>>,
     statistics |-> <<>>]

FullListings == {<<>>, <<[kind |-> "str", data |-> "Customer"],
                         [kind |-> "dict", data |-> [name |-> "Sales Order"]]>>}

FullTypes == {"Customer", "Sales Order"}

FullSchemas ==
    {EmptySchema,
     [kind |-> "dict", data |-> [module |-> "Selling",
                                 fields |-> <<Field("Link", "Sales Order")>>]]}

FullSamples(doctype) ==
    IF doctype = "Customer"
    THEN {<<>>,
          <<Doc([name |-> JStr("A"), customer |-> JStr("B"), docstatus |-> JNum(1)])>>,
          <<Doc([name |-> JStr("A"), customer |-> JStr("B"), docstatus |-> JNum(1)]),
            Doc([name |-> JStr("B"), status |-> JStr("A")])>>,
          <<[kind |-> "str", data |-> <<>>]>>}
    ELSE IF doctype = "Item"
    THEN {<<>>, <<Doc([name |-> JStr("A"), status |-> JStr("Open")])>>}
    ELSE {<<>>}

\* the data source does not change between the builds: a request it has
\* answered before gets the same answer
Unchanged(op, arg, answer) ==
    \A j \in DOMAIN requests :
        (requests[j].op = op /\ requests[j].arg = arg) => requests[j].answer = answer

\* the requests of one type-level build, in the order they are made
SchemaRequests(method, answer, doctypes, answers, ran) ==
    LET lookups == [k \in 1..Len(doctypes) |->
                       Request("get_doctype_schema", DoctypeOf(doctypes[k]), answers[k])]
    IN <<Request("test_connection", "", method)>>
        \o (IF StatusConnected(method) THEN <<Request("get_doctypes", "", answer)>>
            ELSE <<>>)
        \o (IF ran THEN lookups \o lookups ELSE <<>>)

\* lines 301-310: the type-level build, whatever it returns
FullStart ==
    /\ pc = "idle" /\ nCalls < MaxBuilds
    /\ \E method \in ConnectionMethods, answer \in FullListings,
          schemaOf \in [FullTypes -> FullSchemas] :
         LET doctypes == get_doctypes(test_connection(erp, method), answer)
             answers == [k \in 1..Len(doctypes) |-> schemaOf[DoctypeOf(doctypes[k])]]
             B == build_doctype_schema_graph(graph, erp, method, answer,
                                             answers, answers)
             ran == "error" \notin DOMAIN B.results
         IN /\ Unchanged("test_connection", "", method)
            /\ Unchanged("get_doctypes", "", answer)
            /\ \A t \in FullTypes : Unchanged("get_doctype_schema", t, schemaOf[t])
            /\ graph' = B.graph
            /\ erp' = B.erp
            /\ results' = [FullResults EXCEPT !.schema_graph = B.results]
            /\ requests' = requests
                             \o SchemaRequests(method, answer, doctypes, answers, ran)
            /\ loc' = [i |-> 1, first |-> Len(requests), before |-> <<graph, B.graph>>]
    /\ pc' = "full_docs"
    /\ call' = [NoCall EXCEPT !.op = "build_complete_knowledge_graph"]
    /\ pre' = graph
    /\ nCalls' = nCalls + 1
    /\ UNCHANGED <<files, now>>

\* lines 313-316: the instance-level build of the next key type
FullDocuments ==
    /\ pc = "full_docs"
    /\ LET doctype == key_doctypes[loc.i]
       IN \E answer \in FullSamples(doctype) :
            LET B == build_document_relationship_graph(graph, erp, doctype, answer)
            IN /\ Unchanged("get_sample_documents", doctype, answer)
               /\ graph' = B.graph
               /\ results' = [results EXCEPT
                                 !.document_graphs = (doctype :> B.results) @@ @]
               /\ requests' = Append(requests,
                                     Request("get_sample_documents", doctype, answer))
               /\ loc' = [loc EXCEPT !.i = IF @ = Len(key_doctypes) THEN 1 ELSE @ + 1,
                                     !.before = Append(@, B.graph)]
    /\ pc' = IF loc.i = Len(key_doctypes) THEN "full_export" ELSE "full_docs"
    /\ UNCHANGED <<erp, call, pre, nCalls, files, now>>

\* an export loop without its try block: the exception ends the build
FullAfterExportUncaught(raised, last) ==
    IF raised THEN "idle" ELSE IF last THEN "full_stats" ELSE "full_export"

\* lines 319-324: an exception of export_graph ends the loop and is logged
FullAfterExport(raised, last) ==
    IF raised \/ last THEN "full_stats" ELSE "full_export"

\* lines 320-322: the export in the next format
FullExport ==
    /\ pc = "full_export"
    /\ \E io \in ExportIO :
         LET out == export_graph(files, graph, now, ExportOrder[loc.i], io)
         IN /\ files' = out.files
            /\ results' = IF out.raised THEN results
                          ELSE [results EXCEPT !.export_paths = Append(@, out.ret)]
            /\ pc' = FullAfterExport(out.raised, loc.i = Len(ExportOrder))
    /\ loc' = [loc EXCEPT !.i = @ + 1]
    /\ UNCHANGED <<graph, erp, call, pre, requests, nCalls, now>>

\* statistics that empty the graph they have counted
FullStatisticsClearing ==
    /\ pc = "full_stats"
    /\ results' = [results EXCEPT !.statistics = get_graph_statistics(graph)]
    /\ graph' = EmptyGraph
    /\ pc' = "idle"
    /\ UNCHANGED <<erp, call, pre, loc, requests, nCalls, files, now>>

\* lines 327-330: the statistics, and the return
FullStatistics ==
    /\ pc = "full_stats"
    /\ results' = [results EXCEPT !.statistics = get_graph_statistics(graph)]
    /\ pc' = "idle"
    /\ UNCHANGED <<graph, erp, call, pre, loc, requests, nCalls, files, now>>

NextFull == FullStart \/ FullDocuments \/ FullExport \/ FullStatistics

SpecFull == Init /\ [][NextFull]_vars

(***************************************************************************)
(* Claims about the full build                                             *)
(***************************************************************************)
FullReturned == call.op = "build_complete_knowledge_graph" /\ pc = "idle"

\* C23: a full build on an engine that has built before, against the same
\* answers of the data source, ends with as many nodes and as many edges
\* as the build before it: the graph holds what this build produced only.
C23_BuildStartsFresh ==
    (FullReturned /\ nCalls >= 2) =>
        /\ number_of_nodes(graph) = number_of_nodes(pre)
        /\ number_of_edges(graph) = number_of_edges(pre)

\* C24: a full build raises nothing and each of its phases has a next
\* step whatever the phases before it reported; when it has returned,
\* every key type has its result and the statistics are those of the graph as
\* it stands, also when the type-level build aborted with its error field,
\* an instance-level build reported an error, or an export failed.
C24_FullBuildReturns ==
    /\ call.op = "build_complete_knowledge_graph" => ~call.raised
    /\ pc = "full_docs" => loc.i \in DOMAIN key_doctypes
    /\ pc = "full_export" => loc.i \in DOMAIN ExportOrder
    /\ FullReturned =>
          /\ results.statistics = get_graph_statistics(graph)
          /\ DOMAIN results.document_graphs
                = {key_doctypes[k] : k \in 1..Len(key_doctypes)}
          /\ Len(results.export_paths) <= Len(ExportOrder)

\* a build that returned after the type-level build aborted, the build for
\* 'Customer' ended with its error field set by a record that is no dict,
\* the build for 'Item' added a node, and the second export failed
C24_Witness ==
    /\ FullReturned
    /\ "error" \in DOMAIN results.schema_graph
    /\ "error" \in DOMAIN results.document_graphs["Customer"]
    /\ results.document_graphs["Customer"].error # NoDocumentsError("Customer")
    /\ results.document_graphs["Item"].documents_processed = 1
    /\ Len(results.export_paths) = 1
    /\ results.statistics.nodes = 2

\* the edges the k-th phase of the running build added: the type-level
\* build is phase 1, the build of the j-th key type is phase j + 1
PhaseDone(k) == "before" \in DOMAIN loc /\ k + 1 <= Len(loc.before)

AddedIn(k) == loc.before[k + 1].edges (-) loc.before[k].edges

\* C27: relationships_found of the type-level build is the number of edges
\* that call added; relationships_found of an instance-level build is the
\* number of references_<field> edges that call added, which is the number
\* of edges it added less one instance_of edge for every processed record.
C27_FoundCountsEdges ==
    /\ PhaseDone(1) =>
          results.schema_graph.relationships_found = BagCardinality(AddedIn(1))
    /\ \A j \in DOMAIN key_doctypes :
          PhaseDone(j + 1) =>
             LET R == results.document_graphs[key_doctypes[j]]
             IN /\ R.relationships_found
                      = BagCardinality(ReferenceEdges(AddedIn(j + 1)))
                /\ R.relationships_found
                      = BagCardinality(AddedIn(j + 1)) - R.documents_processed

\* a second build in which the type-level build counted three edges and
\* the build for 'Customer' two references between its two records
C27_Witness ==
    /\ FullReturned /\ nCalls = 2
    /\ results.schema_graph.relationships_found = 3
    /\ results.document_graphs["Customer"].relationships_found = 2
    /\ results.document_graphs["Customer"].documents_processed = 2
    /\ results.document_graphs["Item"].documents_processed = 1

\* the graph as the last instance-level build of the running build left it
GraphExported == loc.before[Len(loc.before)]

\* C28: the exports and the statistics of a full build leave the graph as
\* it was, whether the export succeeds or fails, and the statistics
\* returned are those of the graph that was exported: they count the nodes
\* and the links of the json file when that export succeeded.
C28_ExportAndStatisticsReadOnly ==
    [][/\ pc \in {"full_export", "full_stats"} => graph' = graph
       /\ pc = "full_stats" =>
             /\ graph' = GraphExported
             /\ results'.statistics = get_graph_statistics(GraphExported)
             /\ results.export_paths # <<>> =>
                   LET data == files[results.export_paths[1]].data
                   IN /\ results'.statistics.nodes = Len(data.nodes)
                      /\ results'.statistics.edges = Len(data.links)]_vars

\* a build that returned with the json file written and the second export
\* failed, for a graph with parallel edges
C28_Witness ==
    /\ FullReturned
    /\ Len(results.export_paths) = 1
    /\ files[results.export_paths[1]].format = "json"
    /\ Len(files[results.export_paths[1]].data.links) = results.statistics.edges
    /\ results.statistics.edges >= 4
    /\ \E e \in BagToSet(graph.edges) : graph.edges[e] >= 2

\* C30: in a full build whose type-level build aborted with the connection
\* error no sample is fetched for any key type and the graph stays as it
\* was when the build began: no instance node, no stub type node.
C30_AbortSkipsInstanceBuilds ==
    (/\ call.op = "build_complete_knowledge_graph"
     /\ "error" \in DOMAIN results.schema_graph
     /\ results.schema_graph.error = ConnectError)
        => /\ \A j \in (loc.first + 1)..Len(requests) :
                 requests[j].op # "get_sample_documents"
           /\ graph = pre

====
